---- MODULE Spec2Model ----
(***************************************************************************)
(* Model of the ETL loaders of etl-python-sqlite: the SQLite store          *)
(* (ciudades, personas_limpias, etl_runs), the three relational loaders     *)
(* (load_relational, load_incremental, load_batch), the in-place migration  *)
(* of personas_limpias and the batch transformer.                           *)
(*                                                                          *)
(* The store is modelled twice: db is what is durably committed in the      *)
(* database file, conn is what the open connection sees (db plus the        *)
(* changes of its open transaction).  Python's sqlite3 module opens a       *)
(* transaction implicitly before an INSERT and runs DDL in autocommit mode  *)
(* when no transaction is open.                                             *)
(***************************************************************************)
EXTENDS Integers, Sequences, FiniteSets, TLC

VARIABLES
    db,      \* the committed content of the database file
    conn,    \* the content as seen through the connection of the running load
    inTx,    \* the connection has an open (uncommitted) transaction
    open,    \* the connection of the running load is open
    pc,      \* position of the running load
    run,     \* parameters and local variables of the running load
    now,     \* the wall clock, in microsecond ticks
    pre,     \* history: the committed store when the running load started
    tr       \* the batch transformer: input, position, outputs

vars == <<db, conn, inTx, open, pc, run, now, pre, tr>>

storeVars == <<db, conn, inTx, open, pc, run, now, pre>>

(***************************************************************************)
(* Bounds of the model.                                                     *)
(***************************************************************************)
MaxBatch == 2        \* longest batch of valid records handed to a load
MaxRaw == 2          \* longest batch of raw records handed to the transformer
MaxClock == 3        \* last tick of the wall clock
TicksPerSecond == 3  \* clock ticks in one wall-clock second (10^6 in reality)

(***************************************************************************)
(* Inputs: canonical records and source identifiers.                        *)
(***************************************************************************)
Personas ==
    { <<"Ana", 26, "San Luis">>, <<"Ana", 52, "San Juan">> }

RECURSIVE SeqsUpTo(_, _)
SeqsUpTo(S, n) ==
    IF n = 0 THEN { <<>> }
    ELSE LET shorter == SeqsUpTo(S, n - 1)
         IN  shorter \cup { Append(q, x) : q \in shorter, x \in S }

Batches == SeqsUpTo(Personas, MaxBatch)

Alnum == { "p", "c" }

\* len(rechazados) of the transformed file, handed to the load with its name
Sources ==
    { [source_file |-> <<"p", ".", "c">>, rejected_count |-> 0],
      [source_file |-> <<"p", "-", "c">>, rejected_count |-> 2] }

Range(q) == { q[k] : k \in DOMAIN q }

Max(S) == IF S = {} THEN 0 ELSE CHOOSE m \in S : \A x \in S : x <= m

(***************************************************************************)
(* Values of the audit columns.                                             *)
(***************************************************************************)
NoValue == [kind |-> "absent", t |-> 0, safe |-> <<>>]

IsoTime(t) == [kind |-> "isoformat", t |-> t, safe |-> <<>>]

default_processed_at == [kind |-> "1970-01-01T00:00:00Z", t |-> 0, safe |-> <<>>]

default_run_id == [kind |-> "MIGRATION", t |-> 0, safe |-> <<>>]

\* etl_batch.make_run_id: "%Y%m%dT%H%M%S%fZ" of the clock, "_", the file name
\* with every non-alphanumeric character replaced by "_"
Sanitize(source_file) ==
    [k \in DOMAIN source_file |->
        IF source_file[k] \in Alnum THEN source_file[k] ELSE "_"]

make_run_id(t, source_file) ==
    [kind |-> "%Y%m%dT%H%M%S%fZ_", t |-> t, safe |-> Sanitize(source_file)]

\* etl_incremental_audit.load_incremental: "%Y%m%dT%H%M%SZ" of the clock,
\* whole seconds only and no file name
incremental_run_id(t) ==
    [kind |-> "%Y%m%dT%H%M%SZ", t |-> t \div TicksPerSecond, safe |-> <<>>]

(***************************************************************************)
(* The store.                                                               *)
(***************************************************************************)
EmptyStore ==
    [tables |-> {}, ciudades |-> {}, seqC |-> 0,
     shape |-> "none", personas |-> {}, seqP |-> 0, etl_runs |-> {}]

OldColumns == { "persona_id", "nombre", "edad", "ciudad_id" }

NewColumns == OldColumns \cup { "processed_at", "run_id" }

Columns(s, table) ==
    IF table = "personas_limpias" /\ s.shape = "old" THEN OldColumns
    ELSE IF table = "personas_limpias" /\ s.shape = "new" THEN NewColumns
    ELSE {}

ensure_ciudades(s) == [s EXCEPT !.tables = @ \cup { "ciudades" }]

ensure_personas_limpias(s) ==
    IF "personas_limpias" \in s.tables THEN s
    ELSE [s EXCEPT !.tables = @ \cup { "personas_limpias" }, !.shape = "new"]

ensure_etl_runs(s) == [s EXCEPT !.tables = @ \cup { "etl_runs" }]

\* etl_batch.ensure_schema
ensure_schema(s) == ensure_etl_runs(ensure_personas_limpias(ensure_ciudades(s)))

\* etl_relational.ensure_schema: personas_limpias without the audit columns
relational_ensure_schema(s) ==
    LET c == ensure_ciudades(s)
    IN  IF "personas_limpias" \in c.tables THEN c
        ELSE [c EXCEPT !.tables = @ \cup { "personas_limpias" }, !.shape = "old"]

table_has_column_never(s, table, column) == FALSE

table_has_column(s, table, column) == column \in Columns(s, table)

Triple(r) == <<r.nombre, r.edad, r.ciudad_id>>

(***************************************************************************)
(* migrate_personas_limpias_if_needed.  The copy is                        *)
(* INSERT OR IGNORE INTO personas_limpias_new (persona_id, ...) SELECT ...: *)
(* a row is skipped when its persona_id (PRIMARY KEY) or its triple         *)
(* (UNIQUE) is already in the new table.                                    *)
(***************************************************************************)
copy_row_unique_nombre(acc, r) ==
    IF \E x \in acc : x.persona_id = r.persona_id \/ x.nombre = r.nombre
    THEN acc
    ELSE acc \cup { [r EXCEPT !.processed_at = default_processed_at,
                              !.run_id = default_run_id] }

copy_row(acc, r) ==
    IF \E x \in acc : x.persona_id = r.persona_id \/ Triple(x) = Triple(r)
    THEN acc
    ELSE acc \cup { [r EXCEPT !.processed_at = default_processed_at,
                              !.run_id = default_run_id] }

\* the rows of the SELECT, in rowid order, inserted one by one
RECURSIVE CopyRows(_, _)
CopyRows(rows, acc) ==
    IF rows = {} THEN acc
    ELSE LET r == CHOOSE x \in rows : \A y \in rows : x.persona_id <= y.persona_id
         IN  CopyRows(rows \ { r }, copy_row(acc, r))

MigrationNeeded(s) ==
    /\ "personas_limpias" \in s.tables
    /\ ~ ( table_has_column(s, "personas_limpias", "processed_at")
           /\ table_has_column(s, "personas_limpias", "run_id") )

\* CREATE TABLE IF NOT EXISTS personas_limpias_new: the first statement of a
\* needed migration, run before any transaction is open
create_personas_limpias_new(s) ==
    IF MigrationNeeded(s)
    THEN [s EXCEPT !.tables = @ \cup { "personas_limpias_new" }]
    ELSE s

migrate_personas_limpias_if_needed(s) ==
    IF ~ MigrationNeeded(s) THEN s
    ELSE LET copied == CopyRows(s.personas, {})
         IN  [s EXCEPT !.tables = @ \ { "personas_limpias_new" },
                       !.shape = "new",
                       !.personas = copied,
                       !.seqP = Max({ x.persona_id : x \in copied })]

(***************************************************************************)
(* get_or_create_city_id: INSERT OR IGNORE INTO ciudades, then SELECT.      *)
(* An AUTOINCREMENT table takes a value of its sequence for every INSERT    *)
(* OR IGNORE, also for one that is ignored.                                 *)
(***************************************************************************)
insert_city_always(s, ciudad) ==
    [s EXCEPT !.seqC = @ + 1,
              !.ciudades = @ \cup { [ciudad_id |-> s.seqC + 1, nombre |-> ciudad] }]

insert_city(s, ciudad) ==
    IF \E c \in s.ciudades : c.nombre = ciudad
    THEN [s EXCEPT !.seqC = @ + 1]
    ELSE [s EXCEPT !.seqC = @ + 1,
                   !.ciudades = @ \cup { [ciudad_id |-> s.seqC + 1, nombre |-> ciudad] }]

\* a lookup that takes the last row of the table
select_city_id_last(s, ciudad) ==
    Max({ c.ciudad_id : c \in s.ciudades })

select_city_id(s, ciudad) ==
    (CHOOSE c \in s.ciudades : c.nombre = ciudad).ciudad_id

(***************************************************************************)
(* INSERT OR IGNORE INTO personas_limpias.                                  *)
(***************************************************************************)
PersonaRow(id, nombre, edad, ciudad_id, processed_at, run_id) ==
    [persona_id |-> id, nombre |-> nombre, edad |-> edad, ciudad_id |-> ciudad_id,
     processed_at |-> processed_at, run_id |-> run_id]

insert_persona_no_unique(s, nombre, edad, ciudad_id, processed_at, run_id) ==
    [s EXCEPT !.seqP = @ + 1,
              !.personas = @ \cup { PersonaRow(s.seqP + 1, nombre, edad, ciudad_id,
                                               processed_at, run_id) }]

insert_persona_swapped(s, nombre, edad, ciudad_id, processed_at, run_id) ==
    [s EXCEPT !.seqP = @ + 1,
              !.personas = @ \cup
                  { x \in { PersonaRow(s.seqP + 1, nombre, ciudad_id, edad,
                                       processed_at, run_id) } :
                        \A y \in s.personas : Triple(y) /= Triple(x) }]

\* with the audit columns (load_incremental, load_batch); the table must have them
insert_persona(s, nombre, edad, ciudad_id, processed_at, run_id) ==
    IF \E x \in s.personas : Triple(x) = <<nombre, edad, ciudad_id>>
    THEN [s EXCEPT !.seqP = @ + 1]
    ELSE [s EXCEPT !.seqP = @ + 1,
                   !.personas = @ \cup { PersonaRow(s.seqP + 1, nombre, edad, ciudad_id,
                                                    processed_at, run_id) }]

\* without the audit columns (load_relational): on a table that has them the
\* NOT NULL constraints of processed_at and run_id fail and the row is ignored
relational_insert_persona(s, nombre, edad, ciudad_id) ==
    IF s.shape = "new" \/ \E x \in s.personas : Triple(x) = <<nombre, edad, ciudad_id>>
    THEN [s EXCEPT !.seqP = @ + 1]
    ELSE [s EXCEPT !.seqP = @ + 1,
                   !.personas = @ \cup { PersonaRow(s.seqP + 1, nombre, edad, ciudad_id,
                                                    NoValue, NoValue) }]

\* the counters of a load, from the row counts before and after
count_inserted_new_total(before, after) == after

count_inserted_new(before, after) == after - before

count_ignored_duplicates(validos, inserted_new) == Len(validos) - inserted_new

\* INSERT INTO etl_runs: run_id is the PRIMARY KEY
RunIdTaken(s, run_id) == \E r \in s.etl_runs : r.run_id = run_id

insert_run(s, row) == [s EXCEPT !.etl_runs = @ \cup { row }]

(***************************************************************************)
(* The loads.  One load runs at a time (single writer); pc is the next      *)
(* statement of the running load.                                           *)
(***************************************************************************)
IdleRun ==
    [prog |-> "none", source_file |-> <<>>, validos |-> <<>>, rejected_count |-> 0,
     run_id |-> NoValue, started_at |-> NoValue, processed_at |-> NoValue,
     before |-> 0, i |-> 1, ciudad_id |-> 0, committed |-> FALSE, second |-> FALSE,
     counted |-> FALSE, error |-> "none", after |-> 0, inserted_new |-> 0, ignored_duplicates |-> 0]

IdleTransform ==
    [variant |-> "none", datos_crudos |-> <<>>,
     validos |-> <<>>, rechazados |-> <<>>, raised |-> FALSE, done |-> FALSE]

Audited == { "incremental", "batch" }

Init ==
    /\ db = EmptyStore
    /\ conn = EmptyStore
    /\ inTx = FALSE
    /\ open = FALSE
    /\ pc = "idle"
    /\ run = IdleRun
    /\ now = 1
    /\ pre = EmptyStore
    /\ tr = IdleTransform

\* sqlite3.connect(db_path) and the call of the loader
Start(prog, source_file, validos, rejected_count, second) ==
    /\ open' = TRUE
    /\ conn' = db
    /\ inTx' = FALSE
    /\ pre' = db
    /\ run' = [IdleRun EXCEPT !.prog = prog, !.source_file = source_file,
                              !.validos = validos,
                              !.rejected_count = rejected_count,
                              !.second = second]
    /\ pc' = "schema"
    /\ UNCHANGED <<db, now, tr>>

BeginIncremental ==
    /\ pc = "idle" /\ now < MaxClock
    /\ \E f \in Sources, v \in Batches :
           Start("incremental", f.source_file, v, f.rejected_count, FALSE)

BeginBatch ==
    /\ pc = "idle" /\ now < MaxClock
    /\ \E f \in Sources, v \in Batches :
           Start("batch", f.source_file, v, f.rejected_count, FALSE)

\* load_relational returns before connecting when the batch is empty
BeginRelational ==
    /\ pc = "idle" /\ now < MaxClock
    /\ \E v \in Batches \ { <<>> } : Start("relational", <<>>, v, 0, FALSE)

RelationalNothingToLoad ==
    /\ pc = "idle"
    /\ UNCHANGED vars

\* load_incremental: ensure_ciudades
SchemaIncremental ==
    /\ pc = "schema" /\ run.prog = "incremental"
    /\ conn' = ensure_ciudades(conn)
    /\ db' = ensure_ciudades(db)
    /\ pc' = "migrate"
    /\ UNCHANGED <<inTx, open, run, now, pre, tr>>

\* load_incremental: migrate_personas_limpias_if_needed.  CREATE TABLE
\* personas_limpias_new is committed at once, the copy, the DROP and the RENAME
\* belong to the transaction that the copy opens.
Migrate ==
    /\ pc = "migrate"
    /\ conn' = migrate_personas_limpias_if_needed(conn)
    /\ db' = create_personas_limpias_new(db)
    /\ inTx' = MigrationNeeded(conn)
    /\ pc' = "ensure"
    /\ UNCHANGED <<open, run, now, pre, tr>>

\* load_incremental: ensure_personas_limpias, ensure_etl_runs, the three clock
\* reads and the count before
EnsureIncremental ==
    /\ pc = "ensure"
    /\ LET c == ensure_etl_runs(ensure_personas_limpias(conn))
       IN  /\ conn' = c
           /\ db' = IF inTx THEN db ELSE ensure_etl_runs(ensure_personas_limpias(db))
           /\ run' = [run EXCEPT !.started_at = IsoTime(now),
                                 !.run_id = incremental_run_id(now),
                                 !.processed_at = IsoTime(now),
                                 !.before = Cardinality(c.personas)]
    /\ pc' = "insert"
    /\ UNCHANGED <<inTx, open, now, pre, tr>>

\* load_batch: ensure_schema, make_run_id, started_at, the count before
SchemaBatch ==
    /\ pc = "schema" /\ run.prog = "batch"
    /\ conn' = ensure_schema(conn)
    /\ db' = ensure_schema(db)
    /\ run' = [run EXCEPT !.run_id = make_run_id(now, run.source_file),
                          !.started_at = IsoTime(now),
                          !.processed_at = IsoTime(now),
                          !.before = Cardinality(conn.personas)]
    /\ pc' = "insert"
    /\ UNCHANGED <<inTx, open, now, pre, tr>>

\* load_relational: ensure_schema and the count before
SchemaRelational ==
    /\ pc = "schema" /\ run.prog = "relational"
    /\ conn' = relational_ensure_schema(conn)
    /\ db' = relational_ensure_schema(db)
    /\ run' = [run EXCEPT !.before = Cardinality(conn.personas)]
    /\ pc' = "insert"
    /\ UNCHANGED <<inTx, open, now, pre, tr>>

\* one turn of the insert loop of load_incremental and load_batch
InsertAudited ==
    /\ pc = "insert" /\ run.prog \in Audited /\ run.i <= Len(run.validos)
    /\ LET rec == run.validos[run.i]
           c == insert_city(conn, rec[3])
           ciudad_id == select_city_id(c, rec[3])
       IN  IF c.shape = "new"
           THEN /\ conn' = insert_persona(c, rec[1], rec[2], ciudad_id,
                                          run.processed_at, run.run_id)
                /\ run' = [run EXCEPT !.i = @ + 1, !.ciudad_id = ciudad_id]
                /\ UNCHANGED pc
           ELSE \* table personas_limpias has no column named processed_at
                /\ conn' = c
                /\ pc' = "failed"
                /\ run' = [run EXCEPT !.error = "OperationalError",
                                      !.ciudad_id = ciudad_id]
    /\ inTx' = TRUE
    /\ UNCHANGED <<db, open, now, pre, tr>>

\* one turn of the insert loop of load_relational
InsertRelational ==
    /\ pc = "insert" /\ run.prog = "relational" /\ run.i <= Len(run.validos)
    /\ LET rec == run.validos[run.i]
           c == insert_city(conn, rec[3])
           ciudad_id == select_city_id(c, rec[3])
       IN  /\ conn' = relational_insert_persona(c, rec[1], rec[2], ciudad_id)
           /\ run' = [run EXCEPT !.i = @ + 1, !.ciudad_id = ciudad_id]
    /\ inTx' = TRUE
    /\ UNCHANGED <<db, open, pc, now, pre, tr>>

CommitSkipped ==
    /\ pc = "insert" /\ run.i > Len(run.validos)
    /\ now < MaxClock
    /\ now' = now + 1
    /\ run' = [run EXCEPT !.committed = TRUE]
    /\ pc' = IF run.prog \in Audited THEN "audit" ELSE "close"
    /\ UNCHANGED <<db, conn, inTx, open, pre, tr>>

\* conn.commit() after the loop; writing the file takes time
Commit ==
    /\ pc = "insert" /\ run.i > Len(run.validos)
    /\ now < MaxClock
    /\ db' = conn
    /\ inTx' = FALSE
    /\ now' = now + 1
    /\ run' = [run EXCEPT !.committed = TRUE]
    /\ pc' = IF run.prog \in Audited THEN "audit" ELSE "close"
    /\ UNCHANGED <<conn, open, pre, tr>>

\* the count after, the counters and INSERT INTO etl_runs
Audit ==
    /\ pc = "audit"
    /\ LET after == Cardinality(conn.personas)
           inserted_new == count_inserted_new(run.before, after)
           ignored_duplicates == count_ignored_duplicates(run.validos, inserted_new)
           row == [run_id |-> run.run_id, started_at |-> run.started_at,
                   source_file |-> run.source_file,
                   valid_count |-> Len(run.validos),
                   rejected_count |-> run.rejected_count,
                   inserted_new |-> inserted_new,
                   ignored_duplicates |-> ignored_duplicates]
           counted == [run EXCEPT !.counted = TRUE, !.after = after,
                                  !.inserted_new = inserted_new,
                                  !.ignored_duplicates = ignored_duplicates]
       IN  IF RunIdTaken(conn, run.run_id)
           THEN \* UNIQUE constraint failed: etl_runs.run_id
                /\ pc' = "failed"
                /\ run' = [counted EXCEPT !.error = "IntegrityError"]
                /\ UNCHANGED conn
           ELSE /\ conn' = insert_run(conn, row)
                /\ pc' = "commit_audit"
                /\ run' = counted
    /\ inTx' = TRUE
    /\ UNCHANGED <<db, open, now, pre, tr>>

\* conn.commit() after the audit row, then the report and conn.close()
CommitAudit ==
    /\ pc = "commit_audit"
    /\ db' = conn
    /\ inTx' = FALSE
    /\ open' = FALSE
    /\ pc' = "done"
    /\ UNCHANGED <<conn, run, now, pre, tr>>

\* load_relational: the report and conn.close()
Close ==
    /\ pc = "close"
    /\ open' = FALSE
    /\ pc' = "done"
    /\ UNCHANGED <<db, conn, inTx, run, now, pre, tr>>

\* the program ends
Return ==
    /\ pc = "done"
    /\ pc' = "idle"
    /\ run' = IdleRun
    /\ pre' = EmptyStore
    /\ UNCHANGED <<db, conn, inTx, open, now, tr>>

\* the same program is run again at once on the same input
Rerun ==
    /\ pc = "done" /\ ~ run.second
    /\ Start(run.prog, run.source_file, run.validos, run.rejected_count, TRUE)

\* a statement of the load raises sqlite3.Error (the file cannot be written,
\* the database is locked): nothing catches it
Raise ==
    /\ pc \in { "schema", "migrate", "ensure", "insert", "audit", "commit_audit" }
    /\ pc' = "failed"
    /\ run' = [run EXCEPT !.error = "sqlite3.Error"]
    /\ UNCHANGED <<db, conn, inTx, open, now, pre, tr>>

\* the process ends with the exception: the connection was never closed and its
\* open transaction is rolled back
ProcessExit ==
    /\ pc = "failed"
    /\ conn' = db
    /\ inTx' = FALSE
    /\ open' = FALSE
    /\ pc' = "idle"
    /\ run' = IdleRun
    /\ pre' = EmptyStore
    /\ UNCHANGED <<db, now, tr>>

\* time passes between two runs
Tick ==
    /\ pc = "idle"
    /\ now < MaxClock
    /\ now' = now + 1
    /\ UNCHANGED <<db, conn, inTx, open, pc, run, pre, tr>>

Next ==
    \/ BeginIncremental
    \/ BeginBatch
    \/ BeginRelational
    \/ RelationalNothingToLoad
    \/ SchemaIncremental
    \/ Migrate
    \/ EnsureIncremental
    \/ SchemaBatch
    \/ SchemaRelational
    \/ InsertAudited
    \/ InsertRelational
    \/ Commit
    \/ Audit
    \/ CommitAudit
    \/ Close
    \/ Return
    \/ Rerun
    \/ Raise
    \/ ProcessExit
    \/ Tick

Spec == Init /\ [][Next]_vars

(***************************************************************************)
(* Properties of the store.                                                 *)
(***************************************************************************)
UniqueTriples(s) ==
    \A x, y \in s.personas : Triple(x) = Triple(y) => x = y

\* C1: in every state of the store, committed or inside a transaction, no two
\* rows of personas_limpias share (nombre, edad, ciudad_id), whatever schema
\* creations, migrations and loads came before.
C1_Uniqueness == UniqueTriples(db) /\ UniqueTriples(conn)

\* C1 witness: a migrated table that holds two rows and has ignored inserts of
\* triples it already held.
C1_Witness ==
    /\ db.shape = "new"
    /\ Cardinality(db.personas) = 2
    /\ db.seqP > 2
    /\ \E x \in db.personas : x.run_id = default_run_id

\* C2: the second of two loads in a row of the same batch by the same audited
\* loader counts inserted_new = 0 and ignored_duplicates = len(batch) and leaves
\* the row counts of personas_limpias and ciudades as they were.
C2_Idempotence ==
    (run.second /\ run.counted /\ run.prog \in Audited) =>
        /\ run.inserted_new = 0
        /\ run.ignored_duplicates = Len(run.validos)
        /\ Cardinality(conn.personas) = Cardinality(pre.personas)
        /\ Cardinality(db.personas) = Cardinality(pre.personas)
        /\ Cardinality(conn.ciudades) = Cardinality(pre.ciudades)
        /\ Cardinality(db.ciudades) = Cardinality(pre.ciudades)

\* C2 witness: the second load of a batch of two different records has counted.
C2_Witness ==
    /\ run.second /\ run.counted /\ run.prog = "batch"
    /\ Len(run.validos) = 2 /\ run.validos[1] /= run.validos[2]
    /\ run.ignored_duplicates = 2

Key(r) == <<r.persona_id, r.nombre, r.edad, r.ciudad_id>>

\* C4: a migration of a personas_limpias without the audit columns keeps exactly
\* the (persona_id, nombre, edad, ciudad_id) rows it had, none lost and none
\* twice, each with processed_at = '1970-01-01T00:00:00Z' and run_id = 'MIGRATION'.
C4_MigrationKeepsRows ==
    [][ (pc = "migrate" /\ pc' = "ensure" /\ conn.shape = "old") =>
            /\ conn'.shape = "new"
            /\ "personas_limpias" \in conn'.tables
            /\ { Key(r) : r \in conn'.personas } = { Key(r) : r \in conn.personas }
            /\ Cardinality(conn'.personas) = Cardinality(conn.personas)
            /\ \A r \in conn'.personas :
                   /\ r.processed_at = default_processed_at
                   /\ r.run_id = default_run_id ]_vars

\* C4 witness: a migration has just copied two rows of the older shape.
C4_Witness ==
    /\ pc = "ensure" /\ inTx
    /\ pre.shape = "old" /\ Cardinality(pre.personas) = 2
    /\ conn.shape = "new" /\ Cardinality(conn.personas) = 2

\* C5: a migration of a table that already has the audit columns changes
\* nothing: the rows with their processed_at and run_id and the set of tables
\* are the same after it, in the connection and in the file.
C5_SecondMigrationNoOp ==
    [][ (pc = "migrate" /\ pc' = "ensure" /\ conn.shape = "new") =>
            (conn' = conn /\ db' = db /\ inTx' = inTx) ]_vars

\* C5 witness: the migration has run again right after the load that migrated
\* the table, which holds a migrated row and a row of that load.
C5_Witness ==
    /\ pc = "ensure" /\ run.second /\ ~ inTx
    /\ conn.shape = "new"
    /\ \E x \in conn.personas : x.run_id = default_run_id
    /\ \E x \in conn.personas : x.run_id /= default_run_id

\* C6: every load gets a run_id that is not yet in etl_runs, also a load started
\* in the same second as an earlier one, so INSERT INTO etl_runs never fails on
\* its primary key.
C6_RunIdFresh ==
    /\ (pc = "audit" => ~ RunIdTaken(conn, run.run_id))
    /\ ~ (pc = "failed" /\ run.error = "IntegrityError")

ForeignKeys(s) ==
    \A p \in s.personas : \E c \in s.ciudades : c.ciudad_id = p.ciudad_id

\* C7: every row of personas_limpias has the ciudad_id of a row of ciudades, in
\* the file and inside every transaction.
C7_ReferentialIntegrity == ForeignKeys(db) /\ ForeignKeys(conn)

\* C7 witness: two persons of two cities are committed, one of them migrated.
C7_Witness ==
    /\ Cardinality(db.personas) = 2
    /\ Cardinality({ p.ciudad_id : p \in db.personas }) = 2
    /\ \E x \in db.personas : x.run_id = default_run_id
    /\ \E x \in db.personas : x.run_id.kind = "%Y%m%dT%H%M%SZ"

CityIdsInjective(s) ==
    \A c, d \in s.ciudades : (c.nombre = d.nombre) <=> (c.ciudad_id = d.ciudad_id)

\* a turn of an insert loop has run: get_or_create_city_id was called
CityCall ==
    /\ pc = "insert" /\ run.i <= Len(run.validos)
    /\ run'.i = run.i + 1 \/ run'.error = "OperationalError"

\* C8: a call of get_or_create_city_id adds a row to ciudades exactly when no
\* row has that nombre, the new row gets an id no other row has, and the call
\* returns the id of the row of that nombre (the one it had before, if it
\* existed); names and ids of ciudades correspond one to one; a committed row
\* of ciudades stays as it is and nothing but the call adds rows.
C8_CityIds ==
    [][ /\ CityCall =>
              LET ciudad == run.validos[run.i][3]
                  old == { c \in conn.ciudades : c.nombre = ciudad }
                  added == [ciudad_id |-> run'.ciudad_id, nombre |-> ciudad]
              IN  /\ old /= {} =>
                         /\ conn'.ciudades = conn.ciudades
                         /\ \A c \in old : run'.ciudad_id = c.ciudad_id
                  /\ old = {} =>
                         /\ conn'.ciudades = conn.ciudades \cup { added }
                         /\ \A c \in conn.ciudades : c.ciudad_id /= run'.ciudad_id
        /\ (~ CityCall /\ pc /= "failed") => conn'.ciudades = conn.ciudades
        /\ CityIdsInjective(conn') /\ CityIdsInjective(db')
        /\ db.ciudades \subseteq db'.ciudades
        /\ db'.ciudades \subseteq conn'.ciudades ]_vars

\* C8 witness: with two cities in the table, a call has found the older one.
C8_Witness ==
    /\ pc = "insert" /\ run.i = 2
    /\ Cardinality(conn.ciudades) = 2 /\ conn.ciudades = pre.ciudades
    /\ \E c \in conn.ciudades : c.ciudad_id > run.ciudad_id
    /\ \E c \in conn.ciudades : c.ciudad_id = run.ciudad_id

CityName(s, id) == (CHOOSE c \in s.ciudades : c.ciudad_id = id).nombre

StoredTriples(s) ==
    { <<p.nombre, p.edad, CityName(s, p.ciudad_id)>> : p \in s.personas }

\* the distinct records of the batch that the store did not hold before the load
NewTriples == Range(run.validos) \ StoredTriples(pre)

ExpectedRun ==
    [run_id |-> run.run_id, started_at |-> run.started_at,
     source_file |-> run.source_file,
     valid_count |-> Len(run.validos),
     rejected_count |-> run.rejected_count,
     inserted_new |-> Cardinality(NewTriples),
     ignored_duplicates |-> Len(run.validos) - Cardinality(NewTriples)]

\* C9: with one writer, inserted_new is the number of distinct (nombre, edad,
\* ciudad) of the batch that were not in personas_limpias before the load,
\* ignored_duplicates is len(batch) - inserted_new, neither is negative, and
\* the Run row holds them with valid_count = len(batch) and the rejected_count
\* given.
C9_Counters ==
    /\ run.counted =>
           /\ run.inserted_new = Cardinality(NewTriples)
           /\ run.ignored_duplicates = Len(run.validos) - run.inserted_new
           /\ run.inserted_new >= 0 /\ run.ignored_duplicates >= 0
    /\ pc = "commit_audit" =>
           /\ ExpectedRun \notin pre.etl_runs
           /\ conn.etl_runs = pre.etl_runs \cup { ExpectedRun }
    /\ (pc = "done" /\ run.prog \in Audited) =>
           db.etl_runs = pre.etl_runs \cup { ExpectedRun }

\* C9 witness: a load of a batch that holds one new record twice is recorded
\* in a store that already held another record.
C9_Witness ==
    /\ pc = "done" /\ run.prog \in Audited
    /\ Len(run.validos) = 2 /\ run.validos[1] = run.validos[2]
    /\ pre.personas /= {}
    /\ run.inserted_new = 1 /\ run.ignored_duplicates = 1

\* C10: the Run row of a load is inserted only when all its Person inserts are
\* executed and committed; a load that fails, in the schema step, the migration,
\* the insert loop or later, leaves etl_runs as it found it; a committed Run row
\* is never changed or removed.
C10_AuditAfterLoad ==
    [][ /\ conn'.etl_runs /= conn.etl_runs =>
              \/ /\ pc = "audit" /\ run.committed /\ run.i > Len(run.validos)
                 /\ ~ inTx /\ conn.personas = db.personas
                 /\ conn.etl_runs \subseteq conn'.etl_runs
                 /\ Cardinality(conn'.etl_runs) = Cardinality(conn.etl_runs) + 1
              \/ /\ pc = "failed" /\ conn'.etl_runs = db.etl_runs
        /\ db'.etl_runs /= db.etl_runs =>
              /\ pc = "commit_audit" /\ pc' = "done"
              /\ db.personas = conn.personas
              /\ Cardinality(db'.etl_runs) = Cardinality(db.etl_runs) + 1
        /\ pc' = "failed" => db'.etl_runs = pre'.etl_runs
        /\ pc = "failed" => db'.etl_runs = db.etl_runs
        /\ db.etl_runs \subseteq db'.etl_runs ]_vars

\* C10 witness: the Run row is inserted and not yet committed, the two persons
\* of the load are committed.
C10_Witness ==
    /\ pc = "commit_audit"
    /\ conn.etl_runs /= db.etl_runs
    /\ db.personas = conn.personas
    /\ run.inserted_new = 2

\* C11: a load that has ended, by returning or by raising, has closed the
\* connection it opened: no final position of a load has the connection open.
C11_ConnectionReleased == pc \in { "done", "failed" } => ~ open

(***************************************************************************)
(* The batch transformer. A raw field is absent (the key is missing), None *)
(* or a string; a string is a sequence of characters.                       *)
(***************************************************************************)
EDAD_MIN == 25

Absent == [kind |-> "absent", s |-> <<>>]

None == [kind |-> "None", s |-> <<>>]

Str(s) == [kind |-> "str", s |-> s]

\* the letters of the model's alphabet: <<lower case, upper case>>
CasePairs == { <<"a", "A">>, <<"b", "B">>, <<"n", "N">>, <<"o", "O">> }

Whitespace == { " " }

Digits == { "0", "1", "2", "3", "4", "5", "6", "7", "8", "9" }

IsLetter(c) == \E p \in CasePairs : c = p[1] \/ c = p[2]

LowerChar(c) ==
    IF \E p \in CasePairs : c = p[2]
    THEN (CHOOSE p \in CasePairs : c = p[2])[1]
    ELSE c

UpperChar(c) ==
    IF \E p \in CasePairs : c = p[1]
    THEN (CHOOSE p \in CasePairs : c = p[1])[2]
    ELSE c

\* str.strip(): without the leading and trailing whitespace
RECURSIVE lstrip(_)
lstrip(s) ==
    IF s /= <<>> /\ Head(s) \in Whitespace THEN lstrip(Tail(s)) ELSE s

RECURSIVE rstrip(_)
rstrip(s) ==
    IF s /= <<>> /\ s[Len(s)] \in Whitespace
    THEN rstrip(SubSeq(s, 1, Len(s) - 1))
    ELSE s

strip(s) == rstrip(lstrip(s))

\* str.lower()
lower(s) == [k \in DOMAIN s |-> LowerChar(s[k])]

\* str.capitalize(): the first character upper case, the rest lower case
capitalize(s) ==
    [k \in DOMAIN s |-> IF k = 1 THEN UpperChar(s[k]) ELSE LowerChar(s[k])]

\* str.title(): a letter is upper case when the character before it is not a
\* letter (or there is none), lower case otherwise
title(s) ==
    [k \in DOMAIN s |->
        IF k = 1 \/ ~ IsLetter(s[k - 1]) THEN UpperChar(s[k]) ELSE LowerChar(s[k])]

DigitValue(c) ==
    CASE c = "0" -> 0 [] c = "1" -> 1 [] c = "2" -> 2 [] c = "3" -> 3
      [] c = "4" -> 4 [] c = "5" -> 5 [] c = "6" -> 6 [] c = "7" -> 7
      [] c = "8" -> 8 [] c = "9" -> 9

RECURSIVE DigitsValue(_, _)
DigitsValue(s, acc) ==
    IF s = <<>> THEN acc
    ELSE IF Head(s) = "_" THEN DigitsValue(Tail(s), acc)
    ELSE DigitsValue(Tail(s), 10 * acc + DigitValue(Head(s)))

\* the digits of an int literal: digits, single underscores only between digits
IsDigits(s) ==
    /\ s /= <<>>
    /\ \A k \in DOMAIN s : s[k] \in Digits \cup { "_" }
    /\ s[1] /= "_" /\ s[Len(s)] /= "_"
    /\ \A k \in 1..(Len(s) - 1) : ~ (s[k] = "_" /\ s[k + 1] = "_")

\* int(x) of a string: surrounding whitespace, an optional sign, the digits;
\* anything else raises ValueError
int(s) ==
    LET t == strip(s)
        signed == t /= <<>> /\ Head(t) \in { "+", "-" }
        body == IF signed THEN Tail(t) ELSE t
    IN  IF ~ IsDigits(body) THEN [ok |-> FALSE, value |-> 0]
        ELSE [ok |-> TRUE,
              value |-> IF signed /\ Head(t) = "-"
                        THEN 0 - DigitsValue(body, 0)
                        ELSE DigitsValue(body, 0)]

NoValido == <<>>

NoRechazado == [nombre |-> Absent, edad |-> Absent, ciudad |-> Absent,
                motivo |-> [text |-> "", edad_min |-> 0]]

Motivo(text) == [text |-> text, edad_min |-> 0]

Valid(nombre, edad, ciudad) ==
    [kind |-> "valid", valido |-> <<nombre, edad, ciudad>>, rechazado |-> NoRechazado]

Rejected(nombre, edad, ciudad, motivo) ==
    [kind |-> "rejected", valido |-> NoValido,
     rechazado |-> [nombre |-> nombre, edad |-> edad, ciudad |-> ciudad,
                    motivo |-> motivo]]

Raises == [kind |-> "raise", valido |-> NoValido, rechazado |-> NoRechazado]

\* row.get(key, ""): the value, "" when the key is missing
GetOrEmpty(v) == IF v.kind = "absent" THEN Str(<<>>) ELSE v

\* v if v is not None else ""
OrEmpty(v) == IF v.kind = "None" THEN Str(<<>>) ELSE v

\* x.strip().lower(): None has no strip (AttributeError)
normalize(v) ==
    IF v.kind = "str" THEN [exc |-> "none", s |-> lower(strip(v.s))]
    ELSE [exc |-> "AttributeError", s |-> <<>>]

\* int(x): TypeError for None, ValueError for a string that is no integer
py_int(v) ==
    IF v.kind /= "str" THEN [exc |-> "TypeError", value |-> 0]
    ELSE IF int(v.s).ok THEN [exc |-> "none", value |-> int(v.s).value]
    ELSE [exc |-> "ValueError", value |-> 0]

\* str(x)
py_str(v) == IF v.kind = "None" THEN Str(<<"N", "o", "n", "e">>) ELSE v

has_required_cols_unchecked(row) == TRUE

\* required_cols.issubset(row.keys())
has_required_cols(row) ==
    \A f \in { row.nombre, row.edad, row.ciudad } : f.kind /= "absent"

has_none_skipped(row) == FALSE

\* nombre_raw is None or edad_raw is None or ciudad_raw is None
has_none(row) ==
    \E f \in { row.nombre, row.edad, row.ciudad } : f.kind = "None"

EdadBelow(edad_min) == [text |-> "Edad < {edad_min}", edad_min |-> edad_min]

\* one turn of the loop of etl_incremental_audit.transform_with_rejections
audit_row(row, edad_min) ==
    IF ~ has_required_cols(row)
    THEN Rejected(GetOrEmpty(row.nombre), GetOrEmpty(row.edad),
                  GetOrEmpty(row.ciudad), Motivo("Faltan columnas requeridas"))
    ELSE IF has_none(row)
    THEN Rejected(OrEmpty(row.nombre), OrEmpty(row.edad), OrEmpty(row.ciudad),
                  Motivo("Valor None en campo requerido"))
    ELSE IF normalize(row.nombre).exc /= "none" \/ normalize(row.ciudad).exc /= "none"
    THEN \* except Exception
         Rejected(py_str(row.nombre), py_str(row.edad), py_str(row.ciudad),
                  Motivo("Error al normalizar texto"))
    ELSE IF py_int(row.edad).exc = "ValueError"
    THEN \* except ValueError
         Rejected(row.nombre, row.edad, row.ciudad,
                  Motivo("Edad no convertible a int"))
    ELSE IF py_int(row.edad).exc /= "none"
    THEN Raises
    ELSE IF py_int(row.edad).value < edad_min
    THEN Rejected(row.nombre, row.edad, row.ciudad, EdadBelow(edad_min))
    ELSE Valid(capitalize(normalize(row.nombre).s), py_int(row.edad).value,
               title(normalize(row.ciudad).s))

\* one turn of the loop of etl_batch.transform_with_rejections: the three
\* conversions are in one try block with "except Exception"
batch_row(row, edad_min) ==
    IF ~ has_required_cols(row)
    THEN Rejected(row.nombre, row.edad, row.ciudad, Motivo("Faltan columnas"))
    ELSE IF \/ normalize(row.nombre).exc /= "none"
            \/ normalize(row.ciudad).exc /= "none"
            \/ py_int(row.edad).exc /= "none"
    THEN Rejected(row.nombre, row.edad, row.ciudad,
                  Motivo("Normalizacion o tipo invalido"))
    ELSE IF py_int(row.edad).value < edad_min
    THEN Rejected(row.nombre, row.edad, row.ciudad, EdadBelow(edad_min))
    ELSE Valid(capitalize(normalize(row.nombre).s), py_int(row.edad).value,
               title(normalize(row.ciudad).s))

\* one turn of the loop of etl_relational.transform_with_rejections: the same
\* statements as in etl_incremental_audit
relational_row(row, edad_min) == audit_row(row, edad_min)

row_outcome(variant, row, edad_min) ==
    IF variant = "audit" THEN audit_row(row, edad_min)
    ELSE IF variant = "relational" THEN relational_row(row, edad_min)
    ELSE batch_row(row, edad_min)

\* the loop: the outputs after the first k records; an exception ends it
RECURSIVE transform_loop(_, _, _, _)
transform_loop(variant, datos_crudos, edad_min, k) ==
    IF k = 0 THEN [validos |-> <<>>, rechazados |-> <<>>, raised |-> FALSE]
    ELSE LET sofar == transform_loop(variant, datos_crudos, edad_min, k - 1)
             o == row_outcome(variant, datos_crudos[k], edad_min)
         IN  IF sofar.raised \/ o.kind = "raise" THEN [sofar EXCEPT !.raised = TRUE]
             ELSE IF o.kind = "valid"
             THEN [sofar EXCEPT !.validos = Append(@, o.valido)]
             ELSE IF o.kind = "rejected"
             THEN [sofar EXCEPT !.rechazados = Append(@, o.rechazado)]
             ELSE sofar

transform_with_rejections(variant, datos_crudos, edad_min) ==
    transform_loop(variant, datos_crudos, edad_min, Len(datos_crudos))

RawNombres == { Absent, None, Str(<<" ", "a", "N", " ">>) }

RawEdades ==
    { Absent, None, Str(<<"2", "5">>), Str(<<"2", "4">>),
      Str(<<" ", "2", "6", " ">>), Str(<<"2", "a">>) }

RawCiudades == { Absent, None, Str(<<" ", "a", " ", "O", "'", "b">>) }

RawRows == [nombre : RawNombres, edad : RawEdades, ciudad : RawCiudades]

RawBatches == SeqsUpTo(RawRows, MaxRaw)

InitT ==
    /\ db = EmptyStore
    /\ conn = EmptyStore
    /\ inTx = FALSE
    /\ open = FALSE
    /\ pc = "idle"
    /\ run = IdleRun
    /\ now = 1
    /\ pre = EmptyStore
    /\ tr \in { [IdleTransform EXCEPT !.variant = v, !.datos_crudos = d] :
                    v \in { "audit", "batch", "relational" }, d \in RawBatches }

Transform(variant) ==
    /\ tr.variant = variant /\ ~ tr.done
    /\ LET out == transform_with_rejections(variant, tr.datos_crudos, EDAD_MIN)
       IN  tr' = [tr EXCEPT !.validos = out.validos,
                            !.rechazados = out.rechazados,
                            !.raised = out.raised,
                            !.done = TRUE]
    /\ UNCHANGED storeVars

\* etl_incremental_audit.transform_with_rejections
TransformAudit == Transform("audit")

\* etl_batch.transform_with_rejections
TransformBatch == Transform("batch")

\* etl_relational.transform_with_rejections
TransformRelational == Transform("relational")

NextT == TransformAudit \/ TransformBatch \/ TransformRelational

SpecT == InitT /\ [][NextT]_vars

\* C3: for every batch of raw records whose fields are a string, None or
\* absent, transform_with_rejections ends without raising and the valid and the
\* rejected records together are as many as the input records.
C3_Totality ==
    tr.done =>
        /\ ~ tr.raised
        /\ Len(tr.validos) + Len(tr.rechazados) = Len(tr.datos_crudos)

\* C3 witness: a batch of a record with a None field and a good record has been
\* transformed into one rejected and one valid record.
C3_Witness ==
    /\ tr.done /\ Len(tr.datos_crudos) = 2
    /\ tr.datos_crudos[1].edad = None
    /\ Len(tr.validos) = 1 /\ Len(tr.rechazados) = 1

(***************************************************************************)
(* The stages of the validation, stated on the raw record.                  *)
(***************************************************************************)
FailsColumns(row) == \E f \in { row.nombre, row.edad, row.ciudad } : f = Absent

FailsNone(row) == \E f \in { row.nombre, row.edad, row.ciudad } : f = None

FailsText(row) == row.nombre.kind /= "str" \/ row.ciudad.kind /= "str"

FailsInt(row) == row.edad.kind /= "str" \/ ~ int(row.edad.s).ok

FailsThreshold(row, edad_min) == int(row.edad.s).value < edad_min

\* the reason of the first stage that a record fails, NoMotivo when it passes
NoMotivo == Motivo("")

FirstFailure(row, edad_min) ==
    IF FailsColumns(row) THEN Motivo("Faltan columnas requeridas")
    ELSE IF FailsNone(row) THEN Motivo("Valor None en campo requerido")
    ELSE IF FailsText(row) THEN Motivo("Error al normalizar texto")
    ELSE IF FailsInt(row) THEN Motivo("Edad no convertible a int")
    ELSE IF FailsThreshold(row, edad_min) THEN EdadBelow(edad_min)
    ELSE NoMotivo

IsRejectedRow(row) == FirstFailure(row, EDAD_MIN) /= NoMotivo

IsValidRow(row) == FirstFailure(row, EDAD_MIN) = NoMotivo

Staged == { "audit", "relational" }

\* C12: in etl_incremental_audit and etl_relational the rejected records are,
\* in input order, the records that fail a stage, each with the reason of the
\* first stage it fails in the order columns, None, text, integer age, age
\* threshold; the valid records are as many as the records that pass every
\* stage, an age equal to edad_min included.
C12_StageOrder ==
    (tr.done /\ tr.variant \in Staged) =>
        LET failing == SelectSeq(tr.datos_crudos, IsRejectedRow)
            passing == SelectSeq(tr.datos_crudos, IsValidRow)
        IN  /\ ~ tr.raised
            /\ Len(tr.rechazados) = Len(failing)
            /\ \A k \in DOMAIN failing :
                   tr.rechazados[k].motivo = FirstFailure(failing[k], EDAD_MIN)
            /\ Len(tr.validos) = Len(passing)
            /\ \A k \in DOMAIN passing :
                   tr.validos[k][2] = int(passing[k].edad.s).value

\* C12 witness: a record with a None name and an age under the threshold was
\* rejected for the None, and a record of age edad_min was accepted.
C12_Witness ==
    /\ tr.done /\ tr.variant \in Staged /\ Len(tr.datos_crudos) = 2
    /\ tr.datos_crudos[1].nombre = None
    /\ tr.datos_crudos[1].edad = Str(<<"2", "4">>)
    /\ tr.datos_crudos[2].edad = Str(<<"2", "5">>)
    /\ Len(tr.rechazados) = 1
    /\ tr.rechazados[1].motivo = Motivo("Valor None en campo requerido")
    /\ Len(tr.validos) = 1 /\ tr.validos[1][2] = EDAD_MIN

\* C13: every rejected record of etl_incremental_audit and etl_batch carries in
\* nombre, edad and ciudad the values of its input record as given (a missing
\* key stays missing, None stays None, a string keeps its spaces and its case),
\* and the rejected records are in the order of their input records.
C13_RawValuesKept ==
    (tr.done /\ tr.variant \in { "audit", "batch" }) =>
        LET failing == SelectSeq(tr.datos_crudos, IsRejectedRow)
        IN  /\ Len(tr.rechazados) = Len(failing)
            /\ \A k \in DOMAIN failing :
                   /\ tr.rechazados[k].nombre = failing[k].nombre
                   /\ tr.rechazados[k].edad = failing[k].edad
                   /\ tr.rechazados[k].ciudad = failing[k].ciudad

\* the first letter of every whitespace-separated word in upper case, every
\* other letter in lower case
CapitalizeWords(s) ==
    [k \in DOMAIN s |->
        IF k = 1 \/ s[k - 1] \in Whitespace THEN UpperChar(s[k]) ELSE LowerChar(s[k])]

\* C17: in every valid record the ciudad is the raw city trimmed, in lower case
\* but for an upper-case first character of each whitespace-separated word (a
\* letter after an apostrophe inside a word stays in lower case), and the nombre
\* is the raw name trimmed, in lower case but for an upper-case first character.
C17_Canonical ==
    tr.done =>
        LET passing == SelectSeq(tr.datos_crudos, IsValidRow)
        IN  /\ Len(tr.validos) = Len(passing)
            /\ \A k \in DOMAIN passing :
                   /\ tr.validos[k][1] = capitalize(lower(strip(passing[k].nombre.s)))
                   /\ tr.validos[k][3] = CapitalizeWords(lower(strip(passing[k].ciudad.s)))

(***************************************************************************)
(* The legacy transformer of etl_refactor and etl_from_csv: one try block   *)
(* around the conversions, "except (KeyError, ValueError, TypeError)" skips  *)
(* the record, every other exception leaves the function.                   *)
(***************************************************************************)
Skipped == [kind |-> "skip", valido |-> NoValido, rechazado |-> NoRechazado]

Caught == { "KeyError", "ValueError", "TypeError" }

\* persona[key]: KeyError when the key is missing
subscript(v) == IF v.kind = "absent" THEN "KeyError" ELSE "none"

\* the first exception of a sequence of evaluations, "none" when there is none
RECURSIVE FirstException(_)
FirstException(excs) ==
    IF excs = <<>> THEN "none"
    ELSE IF Head(excs) /= "none" THEN Head(excs)
    ELSE FirstException(Tail(excs))

legacy_outcome(persona, exc, edad_min) ==
    IF exc \in Caught THEN Skipped
    ELSE IF exc /= "none" THEN Raises
    ELSE IF py_int(persona.edad).value >= edad_min
    THEN Valid(capitalize(normalize(persona.nombre).s), py_int(persona.edad).value,
               title(normalize(persona.ciudad).s))
    ELSE Skipped

\* etl_refactor.transform, one turn of the loop: each key is read where its
\* value is converted
refactor_row(persona, edad_min) ==
    legacy_outcome(persona,
        FirstException(<< subscript(persona.nombre), normalize(persona.nombre).exc,
                          subscript(persona.edad), py_int(persona.edad).exc,
                          subscript(persona.ciudad), normalize(persona.ciudad).exc >>),
        edad_min)

\* etl_from_csv.transform, one turn of the loop: the three keys are read first
from_csv_row(persona, edad_min) ==
    legacy_outcome(persona,
        FirstException(<< subscript(persona.nombre), subscript(persona.edad),
                          subscript(persona.ciudad), normalize(persona.nombre).exc,
                          py_int(persona.edad).exc, normalize(persona.ciudad).exc >>),
        edad_min)

\* the loop: datos_limpios after the first k records; an exception ends it
RECURSIVE legacy_loop(_, _, _, _)
legacy_loop(variant, datos_crudos, edad_min, k) ==
    IF k = 0 THEN [datos_limpios |-> <<>>, raised |-> FALSE]
    ELSE LET sofar == legacy_loop(variant, datos_crudos, edad_min, k - 1)
             o == IF variant = "refactor"
                  THEN refactor_row(datos_crudos[k], edad_min)
                  ELSE from_csv_row(datos_crudos[k], edad_min)
         IN  IF sofar.raised \/ o.kind = "raise" THEN [sofar EXCEPT !.raised = TRUE]
             ELSE IF o.kind = "valid"
             THEN [sofar EXCEPT !.datos_limpios = Append(@, o.valido)]
             ELSE sofar

transform(variant, datos_crudos, edad_min) ==
    legacy_loop(variant, datos_crudos, edad_min, Len(datos_crudos))

InitLT ==
    /\ db = EmptyStore
    /\ conn = EmptyStore
    /\ inTx = FALSE
    /\ open = FALSE
    /\ pc = "idle"
    /\ run = IdleRun
    /\ now = 1
    /\ pre = EmptyStore
    /\ tr \in { [IdleTransform EXCEPT !.variant = v, !.datos_crudos = d] :
                    v \in { "refactor", "from_csv" }, d \in RawBatches }

LegacyTransform(variant) ==
    /\ tr.variant = variant /\ ~ tr.done
    /\ LET out == transform(variant, tr.datos_crudos, EDAD_MIN)
       IN  tr' = [tr EXCEPT !.validos = out.datos_limpios,
                            !.raised = out.raised,
                            !.done = TRUE]
    /\ UNCHANGED storeVars

\* etl_refactor.transform
TransformRefactor == LegacyTransform("refactor")

\* etl_from_csv.transform
TransformFromCsv == LegacyTransform("from_csv")

NextLT == TransformRefactor \/ TransformFromCsv

SpecLT == InitLT /\ [][NextLT]_vars

\* C15: the legacy transform never raises for a record with a missing key, an
\* age that is no integer or a None value: it skips the record, and its result
\* is the normalised records that pass, in input order.
C15_LegacySkips ==
    tr.done =>
        LET passing == SelectSeq(tr.datos_crudos, IsValidRow)
        IN  /\ ~ tr.raised
            /\ Len(tr.validos) = Len(passing)
            /\ \A k \in DOMAIN passing :
                   tr.validos[k] = << capitalize(lower(strip(passing[k].nombre.s))),
                                      int(passing[k].edad.s).value,
                                      title(lower(strip(passing[k].ciudad.s))) >>

(***************************************************************************)
(* The legacy loader of etl_refactor and etl_from_csv on datos_etl.db:      *)
(* personas_limpias(id, nombre, edad, ciudad) and, during the migration,    *)
(* personas_limpias_new.  db, conn, inTx, open, pc, run and pre are used as *)
(* for the relational loaders; the store has the legacy tables.             *)
(***************************************************************************)
MaxOld == 2          \* most rows of a personas_limpias made before the loader

LegacyRow(id, t) == [id |-> id, nombre |-> t[1], edad |-> t[2], ciudad |-> t[3]]

LegacyTriple(r) == <<r.nombre, r.edad, r.ciudad>>

LegacyTriples(rows) == { LegacyTriple(r) : r \in rows }

\* unique: personas_limpias has UNIQUE(nombre, edad, ciudad); new, seqNew: the
\* rows and the AUTOINCREMENT sequence of personas_limpias_new
EmptyLegacyStore ==
    [tables |-> {}, unique |-> FALSE, personas |-> {}, seq |-> 0,
     new |-> {}, seqNew |-> 0]

\* a personas_limpias made without the UNIQUE constraint: rows 1..n, duplicates
\* allowed
OldLegacyStore(q) ==
    [EmptyLegacyStore EXCEPT !.tables = { "personas_limpias" },
                             !.personas = { LegacyRow(k, q[k]) : k \in DOMAIN q },
                             !.seq = Len(q)]

LegacyStores ==
    { EmptyLegacyStore } \cup { OldLegacyStore(q) : q \in SeqsUpTo(Personas, MaxOld) }

\* CREATE TABLE IF NOT EXISTS personas_limpias_new
create_new(s) == [s EXCEPT !.tables = @ \cup { "personas_limpias_new" }]

legacy_insert_always(rows, seq, t) ==
    [rows |-> rows \cup { LegacyRow(seq + 1, t) }, seq |-> seq + 1]

\* INSERT OR IGNORE (nombre, edad, ciudad) into a table with the UNIQUE
\* constraint: the sequence moves also when the row is ignored
legacy_insert(rows, seq, t) ==
    IF t \in LegacyTriples(rows)
    THEN [rows |-> rows, seq |-> seq + 1]
    ELSE [rows |-> rows \cup { LegacyRow(seq + 1, t) }, seq |-> seq + 1]

\* the rows of a SELECT, in rowid order, inserted one by one
RECURSIVE legacy_insert_rows(_, _)
legacy_insert_rows(source, target) ==
    IF source = {} THEN target
    ELSE LET r == CHOOSE x \in source : \A y \in source : x.id <= y.id
             t == legacy_insert(target.rows, target.seq, LegacyTriple(r))
         IN  legacy_insert_rows(source \ { r }, t)

\* INSERT OR IGNORE INTO personas_limpias_new SELECT ... FROM personas_limpias
legacy_copy(s) ==
    LET t == legacy_insert_rows(s.personas, [rows |-> s.new, seq |-> s.seqNew])
    IN  [s EXCEPT !.new = t.rows, !.seqNew = t.seq]

\* DROP TABLE IF EXISTS personas_limpias;
\* ALTER TABLE personas_limpias_new RENAME TO personas_limpias
legacy_replace(s) ==
    [s EXCEPT !.tables = { "personas_limpias" }, !.unique = TRUE,
              !.personas = s.new, !.seq = s.seqNew,
              !.new = {}, !.seqNew = 0]

\* executemany(INSERT OR IGNORE INTO personas_limpias ...)
RECURSIVE legacy_executemany(_, _, _)
legacy_executemany(s, datos_limpios, k) ==
    IF k = 0 THEN s
    ELSE LET sofar == legacy_executemany(s, datos_limpios, k - 1)
             t == IF sofar.unique
                  THEN legacy_insert(sofar.personas, sofar.seq, datos_limpios[k])
                  ELSE legacy_insert_always(sofar.personas, sofar.seq, datos_limpios[k])
         IN  [sofar EXCEPT !.personas = t.rows, !.seq = t.seq]

InitL ==
    /\ db \in LegacyStores
    /\ conn = db
    /\ inTx = FALSE
    /\ open = FALSE
    /\ pc = "idle"
    /\ run = IdleRun
    /\ now = 1
    /\ pre = db
    /\ tr = IdleTransform

\* load(db_path, datos_limpios) with a batch that is not empty: connect
LegacyBegin ==
    /\ pc = "idle"
    /\ \E prog \in { "refactor", "from_csv" }, v \in Batches \ { <<>> } :
           run' = [IdleRun EXCEPT !.prog = prog, !.validos = v]
    /\ open' = TRUE
    /\ conn' = db
    /\ inTx' = FALSE
    /\ pre' = db
    /\ pc' = "create_new"
    /\ UNCHANGED <<db, now, tr>>

\* load returns before connecting when the batch is empty
LegacyNothingToLoad ==
    /\ pc = "idle"
    /\ UNCHANGED vars

\* ensure_table_with_unique: CREATE TABLE IF NOT EXISTS personas_limpias_new,
\* outside any transaction
LegacyCreateNew ==
    /\ pc = "create_new"
    /\ conn' = create_new(conn)
    /\ db' = create_new(db)
    /\ pc' = "copy"
    /\ UNCHANGED <<inTx, open, run, now, pre, tr>>

\* ensure_table_with_unique: the copy; SELECT ... FROM personas_limpias fails
\* when there is no such table
LegacyCopy ==
    /\ pc = "copy"
    /\ IF "personas_limpias" \in conn.tables
       THEN /\ conn' = legacy_copy(conn)
            /\ inTx' = TRUE
            /\ pc' = "replace"
            /\ UNCHANGED run
       ELSE \* no such table: personas_limpias
            /\ pc' = "failed"
            /\ run' = [run EXCEPT !.error = "OperationalError"]
            /\ UNCHANGED <<conn, inTx>>
    /\ UNCHANGED <<db, open, now, pre, tr>>

\* ensure_table_with_unique: DROP and RENAME, then load counts the rows
LegacyReplace ==
    /\ pc = "replace"
    /\ conn' = legacy_replace(conn)
    /\ run' = [run EXCEPT !.before = Cardinality(conn.new)]
    /\ pc' = "insert"
    /\ UNCHANGED <<db, inTx, open, now, pre, tr>>

\* load: executemany
LegacyInsert ==
    /\ pc = "insert" /\ run.prog \in { "refactor", "from_csv" }
    /\ conn' = legacy_executemany(conn, run.validos, Len(run.validos))
    /\ inTx' = TRUE
    /\ pc' = "commit"
    /\ UNCHANGED <<db, open, run, now, pre, tr>>

\* load: commit
LegacyCommit ==
    /\ pc = "commit"
    /\ db' = conn
    /\ inTx' = FALSE
    /\ run' = [run EXCEPT !.committed = TRUE, !.after = Cardinality(conn.personas)]
    /\ pc' = "close"
    /\ UNCHANGED <<conn, open, now, pre, tr>>

\* load: the report and close()
LegacyClose ==
    /\ pc = "close"
    /\ open' = FALSE
    /\ pc' = "done"
    /\ UNCHANGED <<db, conn, inTx, run, now, pre, tr>>

\* the program ends
LegacyReturn ==
    /\ pc = "done"
    /\ pc' = "idle"
    /\ run' = IdleRun
    /\ pre' = db
    /\ UNCHANGED <<db, conn, inTx, open, now, tr>>

\* a statement raises sqlite3.Error: nothing catches it
LegacyRaise ==
    /\ pc \in { "create_new", "copy", "replace", "insert", "commit" }
    /\ pc' = "failed"
    /\ run' = [run EXCEPT !.error = "sqlite3.Error"]
    /\ UNCHANGED <<db, conn, inTx, open, now, pre, tr>>

\* the process ends with the exception; the open transaction is rolled back
LegacyExit ==
    /\ pc = "failed"
    /\ conn' = db
    /\ inTx' = FALSE
    /\ open' = FALSE
    /\ pc' = "idle"
    /\ run' = IdleRun
    /\ pre' = db
    /\ UNCHANGED <<db, now, tr>>

NextL ==
    \/ LegacyBegin
    \/ LegacyNothingToLoad
    \/ LegacyCreateNew
    \/ LegacyCopy
    \/ LegacyReplace
    \/ LegacyInsert
    \/ LegacyCommit
    \/ LegacyClose
    \/ LegacyReturn
    \/ LegacyRaise
    \/ LegacyExit

SpecL == InitL /\ [][NextL]_vars

\* C14: from every starting store (no personas_limpias, one without the UNIQUE
\* constraint, one already migrated) ensure_table_with_unique does not fail and
\* leaves a personas_limpias with the UNIQUE constraint that holds every triple
\* the table held before, once each; the load that follows commits its batch.
C14_EnsureTable ==
    /\ ~ (pc = "failed" /\ run.error = "OperationalError")
    /\ pc = "insert" =>
           /\ conn.tables = { "personas_limpias" } /\ conn.unique
           /\ LegacyTriples(conn.personas) = LegacyTriples(pre.personas)
           /\ Cardinality(conn.personas) = Cardinality(LegacyTriples(conn.personas))
    /\ pc = "done" =>
           /\ Range(run.validos) \subseteq LegacyTriples(db.personas)
           /\ LegacyTriples(pre.personas) \subseteq LegacyTriples(db.personas)

(***************************************************************************)
(* Two loaders on one database file, each with its own connection.  Here    *)
(* conn, inTx, open, pc and run are functions of the loader, and pre is the *)
(* history of what get_or_create_city_id has returned to each loader.       *)
(* SQLite has one writer at a time: the first INSERT of a transaction takes *)
(* the write lock, which is held until the commit or the rollback; an       *)
(* INSERT of another connection waits for the lock, and sqlite3 raises      *)
(* OperationalError (database is locked) when the wait exceeds the timeout  *)
(* of the connection (5 seconds by default).  Each loader runs one load,    *)
(* followed here up to the commit of its rows.                              *)
(***************************************************************************)
Loaders == { 1, 2 }

Others(l) == Loaders \ { l }

WriteLockFree(l) == \A m \in Others(l) : ~ inTx[m]

InitC ==
    /\ db = ensure_schema(EmptyStore)
    /\ conn = [l \in Loaders |-> ensure_schema(EmptyStore)]
    /\ inTx = [l \in Loaders |-> FALSE]
    /\ open = [l \in Loaders |-> FALSE]
    /\ pc = [l \in Loaders |-> "idle"]
    /\ run = [l \in Loaders |-> IdleRun]
    /\ now = 1
    /\ pre = [l \in Loaders |-> {}]
    /\ tr = IdleTransform

\* a loader connects and reaches its insert loop
ConcurrentBegin(l) ==
    /\ pc[l] = "idle"
    /\ \E v \in Batches \ { <<>> } :
           run' = [run EXCEPT ![l] =
                      [IdleRun EXCEPT !.prog = "batch", !.validos = v,
                                      !.run_id = make_run_id(l, <<>>),
                                      !.processed_at = IsoTime(l)]]
    /\ open' = [open EXCEPT ![l] = TRUE]
    /\ conn' = [conn EXCEPT ![l] = db]
    /\ pc' = [pc EXCEPT ![l] = "insert_city"]
    /\ UNCHANGED <<db, inTx, now, pre, tr>>

\* get_or_create_city_id: INSERT OR IGNORE INTO ciudades, with the write lock;
\* the first INSERT of a transaction starts from the committed content
InsertCity(l) ==
    /\ pc[l] = "insert_city"
    /\ WriteLockFree(l)
    /\ LET base == IF inTx[l] THEN conn[l] ELSE db
       IN  conn' = [conn EXCEPT ![l] = insert_city(base, run[l].validos[run[l].i][3])]
    /\ inTx' = [inTx EXCEPT ![l] = TRUE]
    /\ pc' = [pc EXCEPT ![l] = "select_city"]
    /\ UNCHANGED <<db, open, run, now, pre, tr>>

\* get_or_create_city_id: the INSERT has waited for the write lock of the other
\* loader longer than the timeout
DatabaseIsLocked(l) ==
    /\ pc[l] = "insert_city"
    /\ ~ WriteLockFree(l)
    /\ pc' = [pc EXCEPT ![l] = "failed"]
    /\ run' = [run EXCEPT ![l].error = "OperationalError"]
    /\ UNCHANGED <<db, conn, inTx, open, now, pre, tr>>

\* get_or_create_city_id: SELECT ciudad_id and return
SelectCity(l) ==
    /\ pc[l] = "select_city"
    /\ LET ciudad == run[l].validos[run[l].i][3]
           ciudad_id == select_city_id(conn[l], ciudad)
       IN  /\ run' = [run EXCEPT ![l].ciudad_id = ciudad_id]
           /\ pre' = [pre EXCEPT ![l] = @ \cup { <<ciudad, ciudad_id>> }]
    /\ pc' = [pc EXCEPT ![l] = "insert_persona"]
    /\ UNCHANGED <<db, conn, inTx, open, now, tr>>

\* INSERT OR IGNORE INTO personas_limpias and the next turn of the loop
InsertPersona(l) ==
    /\ pc[l] = "insert_persona"
    /\ LET rec == run[l].validos[run[l].i]
       IN  conn' = [conn EXCEPT ![l] =
                       insert_persona(conn[l], rec[1], rec[2], run[l].ciudad_id,
                                      run[l].processed_at, run[l].run_id)]
    /\ run' = [run EXCEPT ![l].i = @ + 1]
    /\ pc' = [pc EXCEPT ![l] = IF run[l].i < Len(run[l].validos)
                               THEN "insert_city" ELSE "commit"]
    /\ UNCHANGED <<db, inTx, open, now, pre, tr>>

\* conn.commit() after the loop
ConcurrentCommit(l) ==
    /\ pc[l] = "commit"
    /\ db' = conn[l]
    /\ inTx' = [inTx EXCEPT ![l] = FALSE]
    /\ run' = [run EXCEPT ![l].committed = TRUE]
    /\ pc' = [pc EXCEPT ![l] = "done"]
    /\ UNCHANGED <<conn, open, now, pre, tr>>

\* the process of a failed loader ends
ConcurrentExit(l) ==
    /\ pc[l] = "failed"
    /\ conn' = [conn EXCEPT ![l] = db]
    /\ inTx' = [inTx EXCEPT ![l] = FALSE]
    /\ open' = [open EXCEPT ![l] = FALSE]
    /\ pc' = [pc EXCEPT ![l] = "exited"]
    /\ UNCHANGED <<db, run, now, pre, tr>>

NextC ==
    \E l \in Loaders :
        \/ ConcurrentBegin(l)
        \/ InsertCity(l)
        \/ DatabaseIsLocked(l)
        \/ SelectCity(l)
        \/ InsertPersona(l)
        \/ ConcurrentCommit(l)
        \/ ConcurrentExit(l)

SpecC == InitC /\ [][NextC]_vars

\* C16: with two loaders that resolve the same new city, no call of
\* get_or_create_city_id fails, the calls return one and the same ciudad_id for
\* one name, and ciudades has one row for the name once both have committed.
C16_SameCityId ==
    /\ \A l \in Loaders : run[l].error = "none"
    /\ \A l \in Loaders, m \in Loaders :
           \A x \in pre[l], y \in pre[m] : x[1] = y[1] => x[2] = y[2]
    /\ (\A l \in Loaders : pc[l] = "done") =>
           \A l \in Loaders : \A k \in DOMAIN run[l].validos :
               Cardinality({ c \in db.ciudades : c.nombre = run[l].validos[k][3] }) = 1

(***************************************************************************)
(* Audit and data of the relational store.                                  *)
(***************************************************************************)
RowsOfRun(s, run_id) == { p \in s.personas : p.run_id = run_id }

\* C18: in the committed store every row R of etl_runs has exactly
\* R.inserted_new rows of personas_limpias with its run_id, and once no
\* invocation is running every row of personas_limpias that has a run_id
\* other than 'MIGRATION' has its row in etl_runs.
C18_AuditAgrees ==
    /\ \A R \in db.etl_runs :
           Cardinality(RowsOfRun(db, R.run_id)) = R.inserted_new
    /\ pc \in { "idle", "done", "failed" } =>
           \A p \in db.personas :
               p.run_id \notin { default_run_id, NoValue } => RunIdTaken(db, p.run_id)

====
